---- MODULE Spec2Model ----
(***************************************************************************)
(* Model of the bulk price calculator (src/app/page.tsx, src/page.tsx).    *)
(*                                                                         *)
(* Conventions                                                             *)
(*  - A JavaScript string is a sequence of one-character strings; column   *)
(*    names (object keys) and the fixed error messages are TLA+ strings.   *)
(*  - A JavaScript number is Num(n), n an integer count of thousandths     *)
(*    (12.5 is Num(12500)), or PosInf, NegInf, NaN.  Arithmetic is exact   *)
(*    rational arithmetic; Math.round rounds half towards +Infinity.  The  *)
(*    error of binary floating point is not modelled: at an exact tie the  *)
(*    model rounds up where the double computation may fall just below.    *)
(*  - A JavaScript object is a TLA+ function from its keys to values; an   *)
(*    absent key is a key outside the DOMAIN, read as Undef.               *)
(***************************************************************************)
EXTENDS Integers, Sequences, FiniteSets, TLC

VARIABLES data, headers, marginTarget, markupType, originalFileName, error,
          pending, exported, last, env

vars == <<data, headers, marginTarget, markupType, originalFileName, error,
          pending, exported, last, env>>

(***************************************************************************)
(* Bounds of the model.                                                    *)
(***************************************************************************)
MaxRows == 2

MaxPending == 2

MaxCostUnits == 4

(***************************************************************************)
(* JavaScript values.                                                      *)
(***************************************************************************)
Num(n) == [num |-> n]

Str(s) == [str |-> s]

PosInf == [inf |-> 1]

NegInf == [inf |-> -1]

NaN == [nan |-> TRUE]

Undef == [undef |-> TRUE]

IsNum(v) == DOMAIN v = {"num"}

IsStr(v) == DOMAIN v = {"str"}

IsInf(v) == DOMAIN v = {"inf"}

\* obj[key] of JavaScript: Undef when the object has no such key.
Get(obj, key) == IF key \in DOMAIN obj THEN obj[key] ELSE Undef

Has(obj, key) == key \in DOMAIN obj

\* ToBoolean: undefined, 0, NaN and '' are falsy.
Truthy(v) ==
  CASE IsNum(v) -> v.num # 0
    [] IsStr(v) -> Len(v.str) > 0
    [] IsInf(v) -> TRUE
    [] OTHER -> FALSE

\* a || b
OrElse(a, b) == IF Truthy(a) THEN a ELSE b

(***************************************************************************)
(* String helpers.                                                         *)
(***************************************************************************)
Digits == {"0", "1", "2", "3", "4", "5", "6", "7", "8", "9"}

DigitVal == ("0" :> 0) @@ ("1" :> 1) @@ ("2" :> 2) @@ ("3" :> 3) @@ ("4" :> 4)
            @@ ("5" :> 5) @@ ("6" :> 6) @@ ("7" :> 7) @@ ("8" :> 8) @@ ("9" :> 9)

DigitChar == <<"0", "1", "2", "3", "4", "5", "6", "7", "8", "9">>

WhiteSpace == {" ", "\t"}

RECURSIVE DropWhile(_, _)
DropWhile(s, set) ==
  IF s # <<>> /\ Head(s) \in set THEN DropWhile(Tail(s), set) ELSE s

RECURSIVE TakeWhile(_, _)
TakeWhile(s, set) ==
  IF s # <<>> /\ Head(s) \in set THEN <<Head(s)>> \o TakeWhile(Tail(s), set)
  ELSE <<>>

RECURSIVE Reverse(_)
Reverse(s) == IF s = <<>> THEN <<>> ELSE Reverse(Tail(s)) \o <<Head(s)>>

\* String.prototype.trim
Trim(s) == Reverse(DropWhile(Reverse(DropWhile(s, WhiteSpace)), WhiteSpace))

\* String.prototype.startsWith
StartsWith(s, p) == Len(s) >= Len(p) /\ SubSeq(s, 1, Len(p)) = p

\* s.replace(/[set]/g, '')
RemoveAll(s, set) == SelectSeq(s, LAMBDA c : c \notin set)

\* s.replace(pat, rep) with a string pattern: the first occurrence only.
RECURSIVE ReplaceFirst(_, _, _)
ReplaceFirst(s, pat, rep) ==
  IF Len(s) < Len(pat) THEN s
  ELSE IF StartsWith(s, pat) THEN rep \o SubSeq(s, Len(pat) + 1, Len(s))
  ELSE <<Head(s)>> \o ReplaceFirst(Tail(s), pat, rep)

\* The decimal digits of a natural number.
RECURSIVE NatToStr(_)
NatToStr(n) ==
  IF n < 10 THEN <<DigitChar[n + 1]>>
  ELSE NatToStr(n \div 10) \o <<DigitChar[(n % 10) + 1]>>

\* The value of a sequence of digits (0 for the empty sequence).
RECURSIVE DigitsVal(_)
DigitsVal(ds) ==
  IF ds = <<>> THEN 0
  ELSE DigitsVal(SubSeq(ds, 1, Len(ds) - 1)) * 10 + DigitVal[ds[Len(ds)]]

Abs(n) == IF n < 0 THEN -n ELSE n

(***************************************************************************)
(* Number <-> string conversions.                                          *)
(***************************************************************************)
\* parseFloat: optional sign, digits, optional fraction; the longest numeric
\* prefix is parsed and the rest ignored; NaN when there is no digit.
\* Fraction digits beyond the third are dropped (inputs carry at most three).
parseFloat(s) ==
  LET t == DropWhile(s, WhiteSpace)
      neg == t # <<>> /\ Head(t) = "-"
      u == IF t # <<>> /\ Head(t) \in {"-", "+"} THEN Tail(t) ELSE t
      ip == TakeWhile(u, Digits)
      r == SubSeq(u, Len(ip) + 1, Len(u))
      fp == IF r # <<>> /\ Head(r) = "." THEN TakeWhile(Tail(r), Digits) ELSE <<>>
      f3 == SubSeq(fp \o <<"0", "0", "0">>, 1, 3)
      mag == DigitsVal(ip) * 1000 + DigitsVal(f3)
  IN  IF ip = <<>> /\ fp = <<>> THEN NaN
      ELSE Num(IF neg THEN -mag ELSE mag)

\* Number.prototype.toFixed(2) of a finite number or an infinity.
toFixed2(v) ==
  IF IsInf(v) THEN
    (IF v.inf > 0 THEN <<>> ELSE <<"-">>) \o <<"I", "n", "f", "i", "n", "i", "t", "y">>
  ELSE IF ~IsNum(v) THEN <<"N", "a", "N">>
  ELSE
    LET cents == (2 * Abs(v.num) + 10) \div 20
        frac == cents % 100
    IN  (IF v.num < 0 /\ cents > 0 THEN <<"-">> ELSE <<>>)
        \o NatToStr(cents \div 100) \o <<".">>
        \o <<DigitChar[(frac \div 10) + 1], DigitChar[(frac % 10) + 1]>>

\* String(number): the shortest decimal form, no trailing zeros.
NumToStr(v) ==
  IF IsInf(v) THEN
    (IF v.inf > 0 THEN <<>> ELSE <<"-">>) \o <<"I", "n", "f", "i", "n", "i", "t", "y">>
  ELSE IF ~IsNum(v) THEN <<"N", "a", "N">>
  ELSE
    LET a == Abs(v.num)
        f == a % 1000
        f3 == <<DigitChar[(f \div 100) + 1], DigitChar[((f \div 10) % 10) + 1],
                DigitChar[(f % 10) + 1]>>
        fs == Reverse(DropWhile(Reverse(f3), {"0"}))
    IN  (IF v.num < 0 THEN <<"-">> ELSE <<>>)
        \o NatToStr(a \div 1000)
        \o (IF fs = <<>> THEN <<>> ELSE <<".">> \o fs)

(***************************************************************************)
(* src/app/page.tsx: cleanNumber                                           *)
(***************************************************************************)
StripChars == {"$", ",", " ", "\t", "\"", "'"}

cleanNumber(value) ==
  IF ~Truthy(value) THEN Num(0)
  ELSE
    LET cleaned == RemoveAll(value.str, StripChars)
        num == parseFloat(cleaned)
    IN  IF num = NaN THEN Num(0) ELSE num

(***************************************************************************)
(* Rational arithmetic of calculatePrices.                                 *)
(***************************************************************************)
\* Math.round(x * 100) / 100 for x = n / d thousandths (d # 0): the nearest
\* hundredth, a half rounding towards +Infinity.  The result is in thousandths.
Round2(n, d) ==
  LET nn == IF d < 0 THEN -n ELSE n
      dd == Abs(d)
  IN  Num(10 * ((2 * nn + 10 * dd) \div (20 * dd)))

RECURSIVE GCD(_, _)
GCD(a, b) == IF b = 0 THEN a ELSE GCD(b, a % b)

\* Math.round(x * 100) / 100 for x = a * m / d thousandths, the fraction m / d
\* reduced first so that the products stay within 32 bits.
RoundFrac(a, m, d) ==
  LET g == GCD(Abs(m), Abs(d))
  IN  Round2(a * (m \div g), d \div g)

\* A percentage of 100 in thousandths; marginTarget / 100 is target / Unit.
Unit == 100000

(***************************************************************************)
(* src/app/page.tsx: calculatePrices, the body of data.map                 *)
(***************************************************************************)
\* A slip in the short-circuit: the cost written where the price belongs.
zeroCostRowFromCost(row) ==
  [new_price |-> Get(row, "cost_price"),
   margin_percent |-> Num(0),
   price_change |-> Num(0)] @@ row

\* The object returned when cost === 0.
zeroCostRow(row) ==
  [new_price |-> Get(row, "current_price"),
   margin_percent |-> Num(0),
   price_change |-> Num(0)] @@ row

\* A slip in the method switch: the markup formula whatever the method.
targetPriceMarkupOnly(cost, target, method) ==
  RoundFrac(cost.num, Unit + target.num, Unit)

\* newPrice after Math.round(newPrice * 100) / 100.  1 - marginTarget / 100
\* is (Unit - target) / Unit and 1 + marginTarget / 100 is (Unit + target) / Unit;
\* a division by zero gives an infinity with the sign of the cost, and NaN
\* for a cost of 0.
targetPrice(cost, target, method) ==
  IF method = "margin"
  THEN IF Unit - target.num = 0
       THEN (IF cost.num > 0 THEN PosInf ELSE IF cost.num < 0 THEN NegInf ELSE NaN)
       ELSE RoundFrac(cost.num, Unit, Unit - target.num)
  ELSE RoundFrac(cost.num, Unit + target.num, Unit)

\* newPrice > 0
IsPositive(v) == v = PosInf \/ (IsNum(v) /\ v.num > 0)

\* margin_percent: Infinity / Infinity is NaN, and Math.round keeps NaN.
realizedMargin(newPrice, cost) ==
  IF ~IsPositive(newPrice) THEN Num(0)
  ELSE IF newPrice = PosInf THEN NaN
  ELSE RoundFrac(newPrice.num - cost.num, Unit, newPrice.num)

\* price_change: an infinity or NaN minus a finite number is itself.
priceChange(newPrice, current) ==
  IF ~IsNum(newPrice) THEN newPrice
  ELSE Round2(newPrice.num - current.num, 1)

\* A slip in the recomputation: the change measured from the previous
\* new_price when the row already carries one.
calculateRowFromPrevious(row, target, method) ==
  LET cost == OrElse(Get(row, "cost_price"), Num(0))
      newPrice == targetPrice(cost, target, method)
      previous == IF Has(row, "new_price") /\ IsNum(row.new_price)
                  THEN row.new_price ELSE Get(row, "current_price")
  IN  IF cost = Num(0) THEN zeroCostRow(row)
      ELSE [new_price |-> newPrice,
            margin_percent |-> realizedMargin(newPrice, cost),
            price_change |-> priceChange(newPrice, previous),
            new_price_shopify |-> Str(toFixed2(newPrice))] @@ row

calculateRow(row, target, method) ==
  LET cost == OrElse(Get(row, "cost_price"), Num(0))
      newPrice == targetPrice(cost, target, method)
  IN  IF cost = Num(0) THEN zeroCostRow(row)
      ELSE [new_price |-> newPrice,
            margin_percent |-> realizedMargin(newPrice, cost),
            price_change |-> priceChange(newPrice, Get(row, "current_price")),
            new_price_shopify |-> Str(toFixed2(newPrice))] @@ row

(***************************************************************************)
(* src/page.tsx: calculatePrices, the body of data.map.  The formulas, the *)
(* rounding and the newPrice > 0 guard are those of src/app/page.tsx; the  *)
(* function has no branch for a cost of 0.                                 *)
(***************************************************************************)
calculateRowSrcPage(row, target, method) ==
  LET cost == OrElse(Get(row, "cost_price"), Num(0))
      newPrice == targetPrice(cost, target, method)
  IN  [new_price |-> newPrice,
       margin_percent |-> realizedMargin(newPrice, cost),
       price_change |-> priceChange(newPrice, Get(row, "current_price")),
       new_price_shopify |-> Str(toFixed2(newPrice))] @@ row

\* A slip in the map: rows without a cost left out of the result.
calculateAllPriced(rows, target, method) ==
  SelectSeq([i \in 1..Len(rows) |-> calculateRow(rows[i], target, method)],
            LAMBDA row : Has(row, "new_price_shopify"))

calculateAll(rows, target, method) ==
  [i \in 1..Len(rows) |-> calculateRow(rows[i], target, method)]

(***************************************************************************)
(* src/app/page.tsx: handleFileUpload, the Papa.parse complete callback.   *)
(* A parsed file is [columns, rows]: columns are the (trimmed)       *)
(* header names in file order, i.e. Object.keys(parsed[0]); each row maps  *)
(* every column to the text of its cell.                                   *)
(***************************************************************************)
skuField == "Variant SKU"

priceField == "Variant Price"

costField == "Cost per item"

titleField == "Title"

RowPrefix == <<"R", "O", "W", "-">>

UnknownProduct ==
  <<"U", "n", "k", "n", "o", "w", "n", " ", "P", "r", "o", "d", "u", "c", "t">>

SeqToSet(s) == {s[i] : i \in 1..Len(s)}

\* Array.prototype.join on column names.
RECURSIVE Join(_, _)
Join(names, sep) ==
  IF names = <<>> THEN ""
  ELSE IF Len(names) = 1 THEN names[1]
  ELSE names[1] \o sep \o Join(Tail(names), sep)

missingColumns(columns) ==
  (IF skuField \in SeqToSet(columns) THEN <<>> ELSE <<skuField>>)
  \o (IF priceField \in SeqToSet(columns) THEN <<>> ELSE <<priceField>>)

\* The object built for one parsed row (index is 0-based, as in Array.map).
processRow(row, index) ==
  LET rawPrice == Get(row, priceField)
      rawCost == Get(row, costField)
      rawSku == Get(row, skuField)
      rawTitle == Get(row, titleField)
  IN  [sku |-> IF Truthy(rawSku) THEN Str(Trim(rawSku.str))
               ELSE Str(RowPrefix \o NatToStr(index + 1)),
       title |-> IF Truthy(rawTitle) THEN Str(Trim(rawTitle.str))
                 ELSE Str(UnknownProduct),
       current_price |-> cleanNumber(rawPrice),
       cost_price |-> cleanNumber(rawCost)] @@ row

\* The predicate of the .filter after the map.
keepRow(row) == Truthy(row.sku) /\ ~StartsWith(row.sku.str, RowPrefix)

processRows(parsed) ==
  SelectSeq([i \in 1..Len(parsed) |-> processRow(parsed[i], i - 1)], keepRow)

EmptyMsg == "CSV file is empty"

NoValidMsg ==
  "No valid products found. Check your CSV has data in the Variant SKU column."

MissingMsg(columns) ==
  "Missing columns: " \o Join(missingColumns(columns), ", ")
  \o ". Found: " \o Join(columns, ", ")

\* What the complete callback decides for a parsed file.
outcome(file) ==
  IF Len(file.rows) = 0 THEN "EmptyDataset"
  ELSE IF missingColumns(file.columns) # <<>> THEN "MissingColumns"
  ELSE IF processRows(file.rows) = <<>> THEN "NoValidRows"
  ELSE "ok"

(***************************************************************************)
(* src/app/page.tsx: downloadShopifyFormat and downloadCSV.                *)
(***************************************************************************)
UpperCase == <<"A", "B", "C", "D", "E", "F", "G", "H", "I", "J", "K", "L", "M",
              "N", "O", "P", "Q", "R", "S", "T", "U", "V", "W", "X", "Y", "Z">>

LowerCase == <<"a", "b", "c", "d", "e", "f", "g", "h", "i", "j", "k", "l", "m",
              "n", "o", "p", "q", "r", "s", "t", "u", "v", "w", "x", "y", "z">>

\* String.prototype.toLowerCase
toLowerCase(s) ==
  [i \in 1..Len(s) |->
     IF \E j \in 1..Len(UpperCase) : UpperCase[j] = s[i]
     THEN LowerCase[CHOOSE j \in 1..Len(UpperCase) : UpperCase[j] = s[i]]
     ELSE s[i]]

AlphaNum == SeqToSet(LowerCase) \cup Digits

\* s.replace(/[^a-z0-9]+/g, '-')
RECURSIVE hyphenate(_)
hyphenate(s) ==
  IF s = <<>> THEN <<>>
  ELSE IF Head(s) \in AlphaNum THEN <<Head(s)>> \o hyphenate(Tail(s))
  ELSE <<"-">> \o hyphenate(DropWhile(s, {c \in SeqToSet(s) : c \notin AlphaNum}))

shopifyRow(row) ==
  ("Handle" :> OrElse(Get(row, "Handle"), Str(hyphenate(toLowerCase(row.sku.str)))))
  @@ (titleField :> Get(row, "title"))
  @@ (skuField :> Get(row, "sku"))
  @@ (priceField :> OrElse(Get(row, "new_price_shopify"), Get(row, "new_price")))
  @@ (costField :> Get(row, "cost_price"))

\* The text Papa.unparse writes for a value (quoting of delimiters left out).
csvText(v) ==
  CASE IsStr(v) -> v.str
    [] v = Undef -> <<>>
    [] OTHER -> NumToStr(v)

\* data[0]?.new_price, the condition under which the statistics panel and
\* the two download buttons are rendered.
resultsShown == Len(data) > 0 /\ Truthy(Get(data[1], "new_price"))

\* The table body calls row.new_price.toFixed(2) for every row whose
\* new_price is truthy: a non-empty string there makes the render throw, and
\* the component, with its handlers and state, is gone.
renderThrows ==
  \E i \in 1..Len(data) :
    IsStr(Get(data[i], "new_price")) /\ Truthy(Get(data[i], "new_price"))

Mounted == ~renderThrows

NoExport == [kind |-> "none"]

\* The session state an ingestion is meant to leave alone when it fails.
Snapshot == [data |-> data, headers |-> headers, label |-> originalFileName]

(***************************************************************************)
(* src/app/page.tsx: stats, computed from data at every render.            *)
(***************************************************************************)
\* ToNumber, as applied by > and < to an operand that is not a number: a
\* string is its numeric value when the whole trimmed text is a decimal
\* numeral, 0 when it is blank, NaN otherwise; undefined is NaN.
toNumber(v) ==
  CASE IsStr(v) ->
         LET t == Trim(v.str)
             u == IF t # <<>> /\ Head(t) \in {"-", "+"} THEN Tail(t) ELSE t
         IN  IF t = <<>> THEN Num(0)
             ELSE IF /\ \A i \in 1..Len(u) : u[i] \in Digits \cup {"."}
                     /\ Len(SelectSeq(u, LAMBDA c : c = ".")) <= 1
                     /\ \E i \in 1..Len(u) : u[i] \in Digits
                  THEN parseFloat(t)
                  ELSE NaN
    [] v = Undef -> NaN
    [] OTHER -> v

\* v > 0
greaterThanZero(v) ==
  LET n == toNumber(v) IN n = PosInf \/ (IsNum(n) /\ n.num > 0)

\* v < 0
lessThanZero(v) ==
  LET n == toNumber(v) IN n = NegInf \/ (IsNum(n) /\ n.num < 0)

\* The sum of row.margin_percent || 0 over the rows, in thousandths; NaN as
\* soon as one term is NaN.
RECURSIVE sumMargins(_)
sumMargins(rows) ==
  IF rows = <<>> THEN Num(0)
  ELSE LET term == OrElse(Get(Head(rows), "margin_percent"), Num(0))
           rest == sumMargins(Tail(rows))
       IN  IF IsNum(term) /\ IsNum(rest) THEN Num(term.num + rest.num) ELSE NaN

\* (sum / count).toFixed(1): the nearest tenth, a half away from zero.
toFixed1(sum, count) ==
  IF ~IsNum(sum) THEN <<"N", "a", "N">>
  ELSE
    LET tenths == (2 * Abs(sum.num) + 100 * count) \div (200 * count)
    IN  (IF sum.num < 0 /\ tenths > 0 THEN <<"-">> ELSE <<>>)
        \o NatToStr(tenths \div 10) \o <<".", DigitChar[(tenths % 10) + 1]>>

\* A slip in the count of increases: unchanged prices counted as increases.
statsCountingUnchanged ==
  [total |-> Len(data),
   avgMargin |-> IF Len(data) > 0 THEN Str(toFixed1(sumMargins(data), Len(data)))
                 ELSE Num(0),
   priceIncreases |->
     Len(SelectSeq(data, LAMBDA row :
           ~lessThanZero(OrElse(Get(row, "price_change"), Num(0))))),
   priceDecreases |->
     Len(SelectSeq(data, LAMBDA row :
           lessThanZero(OrElse(Get(row, "price_change"), Num(0))))),
   zeroCost |->
     Len(SelectSeq(data, LAMBDA row :
           OrElse(Get(row, "cost_price"), Num(0)) = Num(0)))]

stats ==
  [total |-> Len(data),
   avgMargin |-> IF Len(data) > 0 THEN Str(toFixed1(sumMargins(data), Len(data)))
                 ELSE Num(0),
   priceIncreases |->
     Len(SelectSeq(data, LAMBDA row :
           greaterThanZero(OrElse(Get(row, "price_change"), Num(0))))),
   priceDecreases |->
     Len(SelectSeq(data, LAMBDA row :
           lessThanZero(OrElse(Get(row, "price_change"), Num(0))))),
   zeroCost |->
     Len(SelectSeq(data, LAMBDA row :
           OrElse(Get(row, "cost_price"), Num(0)) = Num(0)))]

(***************************************************************************)
(* The session: state after construction and one action per handler.       *)
(***************************************************************************)
CsvSuffix == <<".", "c", "s", "v">>

Target40 == 40000

InitState ==
  /\ data = <<>>
  /\ headers = <<>>
  /\ marginTarget = Num(Target40)
  /\ markupType = "margin"
  /\ originalFileName = <<>>
  /\ error = ""
  /\ pending = <<>>
  /\ exported = NoExport
  /\ last = [op |-> "init"]

resetAll ==
  /\ Mounted
  /\ Len(data) > 0
  /\ data' = <<>>
  /\ headers' = <<>>
  /\ originalFileName' = <<>>
  /\ error' = ""
  /\ exported' = NoExport
  /\ last' = [op |-> "reset"]
  /\ UNCHANGED <<marginTarget, markupType, pending, env>>

\* The change event without a file: if (!file) return.
selectNothing ==
  /\ Mounted
  /\ Len(data) = 0
  /\ exported' = NoExport
  /\ last' = [op |-> "cancel"]
  /\ UNCHANGED <<data, headers, marginTarget, markupType, originalFileName,
                 error, pending, env>>

\* handleFileUpload up to the call of Papa.parse; the file input is rendered
\* only while data.length === 0.
handleFileUpload(name) ==
  /\ Mounted
  /\ Len(data) = 0
  /\ Len(pending) < MaxPending
  /\ error' = ""
  /\ originalFileName' = ReplaceFirst(name, CsvSuffix, <<>>)
  /\ pending' = Append(pending, name)
  /\ exported' = NoExport
  /\ last' = [op |-> "select", name |-> name, before |-> Snapshot]
  /\ UNCHANGED <<data, headers, marginTarget, markupType, env>>

RemoveAt(s, i) == SubSeq(s, 1, i - 1) \o SubSeq(s, i + 1, Len(s))

\* The complete callback of the i-th parse in flight, delivering file.
parseComplete(i, file) ==
  LET parsed == file.rows
      columns == file.columns
      processed == processRows(parsed)
      result == outcome(file)
  IN
  /\ Mounted
  /\ i \in 1..Len(pending)
  /\ pending' = RemoveAt(pending, i)
  /\ exported' = NoExport
  /\ last' = [op |-> "complete", outcome |-> result, name |-> pending[i],
              skus |-> [k \in 1..Len(parsed) |-> Get(parsed[k], skuField)]]
  /\ UNCHANGED <<marginTarget, markupType, originalFileName, env>>
  /\ IF Len(parsed) = 0 THEN
       /\ error' = EmptyMsg
       /\ UNCHANGED <<data, headers>>
     ELSE IF missingColumns(columns) # <<>> THEN
       /\ error' = MissingMsg(columns)
       /\ UNCHANGED <<data, headers>>
     ELSE
       /\ headers' = columns
       /\ IF Len(processed) = 0 THEN
            /\ error' = NoValidMsg
            /\ UNCHANGED data
          ELSE
            /\ data' = processed
            /\ UNCHANGED error

setMarkupType(m) ==
  /\ Mounted
  /\ Len(data) > 0
  /\ markupType' = m
  /\ exported' = NoExport
  /\ last' = [op |-> "method"]
  /\ UNCHANGED <<data, headers, marginTarget, originalFileName, error, pending, env>>

\* onChange of the target input: parseFloat(e.target.value) || 0
setMarginTarget(text) ==
  /\ Mounted
  /\ Len(data) > 0
  /\ marginTarget' = OrElse(parseFloat(text), Num(0))
  /\ exported' = NoExport
  /\ last' = [op |-> "target"]
  /\ UNCHANGED <<data, headers, markupType, originalFileName, error, pending, env>>

calculatePrices ==
  /\ Mounted
  /\ Len(data) > 0
  /\ data' = calculateAll(data, marginTarget, markupType)
  /\ exported' = NoExport
  /\ last' = [op |-> "calculate", target |-> marginTarget, method |-> markupType,
              again |-> /\ last.op = "calculate"
                        /\ last.target = marginTarget
                        /\ last.method = markupType]
  /\ UNCHANGED <<headers, marginTarget, markupType, originalFileName, error,
                 pending, env>>

Today == <<"2", "0", "2", "6", "-", "1", "1", "-", "0", "6">>

downloadCSV ==
  /\ Mounted
  /\ resultsShown
  /\ exported' = [kind |-> "report",
                  name |-> originalFileName \o <<"_", "u", "p", "d", "a", "t", "e", "d", "_">>
                           \o Today \o CsvSuffix,
                  rows |-> [i \in 1..Len(data) |->
                              [k \in DOMAIN data[1] |-> csvText(Get(data[i], k))]]]
  /\ last' = [op |-> "report"]
  /\ UNCHANGED <<data, headers, marginTarget, markupType, originalFileName,
                 error, pending, env>>

downloadShopifyFormat ==
  /\ Mounted
  /\ resultsShown
  /\ exported' = [kind |-> "shopify",
                  name |-> <<"s", "h", "o", "p", "i", "f", "y", "_", "i", "m", "p", "o", "r", "t", "_">>
                           \o Today \o CsvSuffix,
                  rows |-> [i \in 1..Len(data) |->
                              [k \in DOMAIN shopifyRow(data[i]) |->
                                 csvText(shopifyRow(data[i])[k])]]]
  /\ last' = [op |-> "shopify"]
  /\ UNCHANGED <<data, headers, marginTarget, markupType, originalFileName,
                 error, pending, env>>

(***************************************************************************)
(* The environment: the files the user can select and the texts the user   *)
(* can type into the target input.  env names the user's material and is   *)
(* fixed during a session: "session" is a catalogue of well- and ill-formed *)
(* files of at most one product, "batch" the same catalogue with several   *)
(* products per file, "pricing" a range of one-product files and targets.  *)
(***************************************************************************)
Cells(sku, title, price, cost, handle, np) ==
  [sku |-> sku, title |-> title, price |-> price, cost |-> cost,
   handle |-> handle, np |-> np]

cellOf(col, c) ==
  CASE col = skuField -> c.sku
    [] col = titleField -> c.title
    [] col = priceField -> c.price
    [] col = costField -> c.cost
    [] col = "Handle" -> c.handle
    [] col = "new_price" -> c.np

\* One parsed row: every column of the header mapped to the text of its cell.
MkRow(columns, c) == [col \in SeqToSet(columns) |-> Str(cellOf(col, c))]

CatalogueCells ==
  { Cells(<<"A", "1">>, <<"T", "e", "e">>,
          <<"$", "1", ",", "2", "3", "4", ".", "5", "0">>, <<"6", "0">>,
          <<"t", "e", "e">>, <<>>),
    Cells(<<>>, <<>>, <<"1", "2", ".", "5">>, <<"a", "b", "c">>, <<>>, <<"7">>),
    Cells(<<"R", "O", "W", "-", "X">>, <<"C", "a", "p">>,
          <<"9", ".", "9", "9">>, <<"5">>, <<>>, <<>>),
    Cells(<<" ", "C", " ", "3", " ">>, <<" ", "M", "u", "g">>,
          <<"0">>, <<>>, <<>>, <<"7">>),
    Cells(<<" ">>, <<"P", "e", "n">>, <<"1", "2">>, <<" ", "8", " ">>, <<>>, <<>>),
    Cells(<<"B", "2">>, <<>>, <<"-", "1", "2", ".", "5">>, <<"8", ".", "0", "0", "4">>,
          <<>>, <<>>) }

FullColumns == <<titleField, skuField, priceField, costField>>

ReportColumns == <<"Handle", skuField, priceField, "new_price">>

NoKeyColumns == <<titleField, costField>>

\* The sequences of at most n distinct elements of S.
SeqsUpTo(S, n) ==
  UNION {{q \in [1..k -> S] : \A i, j \in 1..k : q[i] = q[j] => i = j} : k \in 0..n}

CatalogueFiles(n) ==
  { [columns |-> cols, rows |-> [i \in 1..Len(cs) |-> MkRow(cols, cs[i])]] :
      cols \in {FullColumns, ReportColumns},
      cs \in SeqsUpTo(CatalogueCells, n) }
  \cup { [columns |-> NoKeyColumns,
          rows |-> <<MkRow(NoKeyColumns, c)>>] : c \in CatalogueCells }

SessionFiles == CatalogueFiles(1)

BatchFiles == CatalogueFiles(MaxRows)

\* Costs and prices in thousandths: negative, zero, sub-cent, and a range.
CostValues ==
  {-5000, 0, 4, 1005, 1150, 10004, 60000} \cup {k * 12500 : k \in 1..MaxCostUnits}

PriceValues == {0, 5, 9990, 12345, 100000}

PricingFiles ==
  { [columns |-> FullColumns,
     rows |-> << MkRow(FullColumns,
                       Cells(<<"N", "1">>, <<"N">>, NumToStr(Num(p)),
                             NumToStr(Num(c)), <<>>, <<>>)) >>] :
      c \in CostValues, p \in PriceValues }

Files ==
  CASE env = "session" -> SessionFiles
    [] env = "batch" -> BatchFiles
    [] OTHER -> PricingFiles

FileA == <<"a", ".", "c", "s", "v">>

FileB == <<"b", ".", "c", "s", "v">>

FileNames == IF env = "pricing" THEN {FileA} ELSE {FileA, FileB}

TargetTexts ==
  IF env # "pricing" THEN { <<"1", "0", "0">> }
  ELSE { <<"4", "0">>, <<"0">>, <<"1", "0", "0">>, <<"1", "5", "0">>,
         <<"-", "5", "0">>, <<"-", "1", "0", "0">>, <<"3", "3", ".", "3">>,
         <<"9", "9", ".", "9">>, <<"1", "0">>, <<"x">> }

Init ==
  /\ InitState
  /\ env = "session"

InitBatch ==
  /\ InitState
  /\ env = "batch"

InitPricing ==
  /\ InitState
  /\ env = "pricing"

Next ==
  \/ resetAll
  \/ selectNothing
  \/ \E n \in FileNames : handleFileUpload(n)
  \/ \E i \in 1..Len(pending), f \in Files : parseComplete(i, f)
  \/ \E m \in {"margin", "markup"} : setMarkupType(m)
  \/ \E t \in TargetTexts : setMarginTarget(t)
  \/ calculatePrices
  \/ downloadCSV
  \/ downloadShopifyFormat

Spec == Init /\ [][Next]_vars

\* A session with one upload at a time.
NextSequential ==
  \/ resetAll
  \/ pending = <<>> /\ \E n \in FileNames : handleFileUpload(n)
  \/ \E f \in Files : parseComplete(1, f)
  \/ \E m \in {"margin", "markup"} : setMarkupType(m)
  \/ \E t \in TargetTexts : setMarginTarget(t)
  \/ calculatePrices
  \/ downloadCSV
  \/ downloadShopifyFormat

SpecBatch == InitBatch /\ [][NextSequential]_vars

SpecPricing == InitPricing /\ [][NextSequential]_vars

(***************************************************************************)
(* Properties.                                                             *)
(***************************************************************************)
Rows == 1..Len(data)

AfterCalculate == last.op = "calculate"

\* C1: after Calculate, every row with cost_price = 0 has new_price equal to
\* its current_price, margin_percent 0 and price_change 0, for every target
\* and either method.
C1_ZeroCostShortCircuit ==
  AfterCalculate =>
    \A i \in Rows :
      data[i].cost_price = Num(0) =>
        /\ Get(data[i], "new_price") = data[i].current_price
        /\ Get(data[i], "margin_percent") = Num(0)
        /\ Get(data[i], "price_change") = Num(0)

C1_Witness ==
  /\ AfterCalculate
  /\ last.method = "markup"
  /\ last.target # Num(Target40)
  /\ \E i \in Rows : data[i].cost_price = Num(0) /\ data[i].current_price.num > 0

\* v is a nearest hundredth of a * m / d (all in thousandths, d # 0).
NearestHundredth(v, a, m, d) ==
  LET g == GCD(Abs(m), Abs(d))
      mm == m \div g
      dd == d \div g
  IN  /\ IsNum(v)
      /\ v.num % 10 = 0
      /\ 2 * Abs(v.num * dd - a * mm) <= 10 * Abs(dd)

\* C7: for a row with cost_price # 0, Calculate sets new_price to
\* cost / (1 - target/100) under margin and cost * (1 + target/100) under
\* markup, to the nearest hundredth (an infinity of the cost's sign when the
\* divisor is zero), cost 60 at target 40 giving 100.00 and 84.00, and sets
\* price_change to new_price - current_price to the nearest hundredth.
C7_TargetPrice ==
  AfterCalculate =>
    \A i \in Rows :
      LET cost == data[i].cost_price.num
          cur == data[i].current_price.num
          t == last.target.num
          np == Get(data[i], "new_price")
          pc == Get(data[i], "price_change")
      IN  cost # 0 =>
            /\ IF last.method = "margin"
               THEN IF Unit - t = 0
                    THEN np = (IF cost > 0 THEN PosInf ELSE NegInf)
                    ELSE NearestHundredth(np, cost, Unit, Unit - t)
               ELSE NearestHundredth(np, cost, Unit + t, Unit)
            /\ IF IsNum(np) THEN NearestHundredth(pc, np.num - cur, 1, 1)
               ELSE pc = np
            /\ (cost = 60000 /\ t = Target40) =>
                 np = (IF last.method = "margin" THEN Num(100000) ELSE Num(84000))

C7_Witness ==
  /\ AfterCalculate
  /\ last.method = "margin"
  /\ last.target = Num(Target40)
  /\ \E i \in Rows :
       /\ data[i].cost_price = Num(60000)
       /\ Get(data[i], "new_price") = Num(100000)
       /\ Get(data[i], "price_change") = Num(100000 - data[i].current_price.num)
       /\ data[i].current_price.num > 0

\* C8: for a row with cost_price # 0, whatever the target and the method,
\* margin_percent after Calculate is a number: 0 when new_price <= 0 and
\* otherwise (new_price - cost_price) / new_price * 100 to the nearest
\* hundredth.
C8_MarginWellDefined ==
  AfterCalculate =>
    \A i \in Rows :
      LET cost == data[i].cost_price.num
          np == Get(data[i], "new_price")
          mp == Get(data[i], "margin_percent")
      IN  cost # 0 =>
            /\ IsNum(mp)
            /\ ~IsPositive(np) => mp = Num(0)
            /\ (IsNum(np) /\ np.num > 0) =>
                 NearestHundredth(mp, np.num - cost, Unit, np.num)

DerivedKeys == {"new_price", "margin_percent", "price_change"}

Derived(row) == [k \in DerivedKeys |-> Get(row, k)]

\* The row without the fields Calculate writes.
Base(row) ==
  [k \in DOMAIN row \ (DerivedKeys \cup {"new_price_shopify"}) |-> row[k]]

C9_LastRunOnly ==
  AfterCalculate =>
    \A i \in Rows :
      Derived(data[i]) = Derived(calculateRow(Base(data[i]), last.target, last.method))

C9_SecondRunSame ==
  (/\ last.op = "calculate"
   /\ last'.op = "calculate"
   /\ last'.target = last.target
   /\ last'.method = last.method)
  => /\ Len(data') = Len(data)
     /\ \A i \in Rows : Derived(data'[i]) = Derived(data[i])

\* C9: Calculate run twice in a row with the same target and method leaves
\* every row's new_price, margin_percent and price_change as after the first
\* run, and after any sequence of runs these fields are those a single run
\* with the last parameters computes from cost_price and current_price.
C9_Idempotent == [](C9_LastRunOnly) /\ [][C9_SecondRunSame]_vars

C9_Witness ==
  /\ AfterCalculate
  /\ last.again
  /\ last.method = "markup"
  /\ \E i \in Rows :
       /\ data[i].cost_price.num > 0
       /\ IsNum(Get(data[i], "price_change"))
       /\ Get(data[i], "price_change").num # 0

\* C10: in the import-format export the 'Variant Price' of a row is its
\* new_price written with exactly two decimals when the row has a new_price
\* (rows of the zero-cost short-circuit included), and its current_price
\* otherwise.
C10_VariantPriceTwoDecimals ==
  last.op = "shopify" =>
    \A i \in Rows :
      exported.rows[i][priceField] =
        IF Has(data[i], "new_price")
        THEN toFixed2(data[i].new_price)
        ELSE NumToStr(data[i].current_price)

\* C2: when an upload (the file selection, then its parse completion) fails
\* validation (no parsed row, a missing required column, no row left after
\* filtering), the dataset rows, the recorded header set and the
\* original-source label have the values they had before the upload started.
C2_FailedUploadKeepsState ==
  [][(last.op = "select" /\ last'.op = "complete" /\ last'.outcome # "ok") =>
       /\ data' = last.before.data
       /\ headers' = last.before.headers
       /\ originalFileName' = last.before.label]_vars

\* The state of the dataset: Empty, Calculated when every row carries the
\* three derived fields, Loaded otherwise.
DatasetState(d) ==
  IF Len(d) = 0 THEN "Empty"
  ELSE IF \A i \in 1..Len(d) : DerivedKeys \subseteq DOMAIN d[i] THEN "Calculated"
  ELSE "Loaded"

\* C3: the dataset state changes only from Empty to Loaded by a successful
\* ingestion, from Loaded to Calculated by Calculate, and from any state to
\* Empty by reset.
C3_OnlySpecifiedTransitions ==
  [][DatasetState(data') # DatasetState(data) =>
       \/ /\ DatasetState(data) = "Empty"
          /\ DatasetState(data') = "Loaded"
          /\ last'.op = "complete"
       \/ /\ DatasetState(data) = "Loaded"
          /\ DatasetState(data') = "Calculated"
          /\ last'.op = "calculate"
       \/ /\ DatasetState(data') = "Empty"
          /\ last'.op = "reset"]_vars

\* C4: every row of the dataset has current_price >= 0 and cost_price >= 0.
C4_NonNegativePrices ==
  \A i \in Rows : data[i].current_price.num >= 0 /\ data[i].cost_price.num >= 0

\* The identifier cell is non-blank after trimming.
RealIdentifier(cell) == IsStr(cell) /\ Trim(cell.str) # <<>>

\* C5: a successful ingestion keeps exactly the rows whose 'Variant SKU' cell
\* is non-blank after trimming, whatever its text, in input order.
C5_KeepsRealIdentifiers ==
  (last.op = "complete" /\ last.outcome = "ok") =>
    [i \in Rows |-> data[i][skuField]] = SelectSeq(last.skus, RealIdentifier)

\* C6: in every row the derived fields new_price, margin_percent and
\* price_change are all absent or all present.
C6_DerivedAllOrNone ==
  \A i \in Rows :
    \/ DerivedKeys \subseteq DOMAIN data[i]
    \/ DerivedKeys \cap DOMAIN data[i] = {}

\* The sign of a row's price_change: 1, -1, or 0 when it is zero or absent.
ChangeSign(row) ==
  LET pc == Get(row, "price_change")
  IN  CASE pc = PosInf -> 1
        [] pc = NegInf -> -1
        [] IsNum(pc) -> (IF pc.num > 0 THEN 1 ELSE IF pc.num < 0 THEN -1 ELSE 0)
        [] OTHER -> 0

\* C11: in every state the summary statistics are those of the current
\* rows: total is the number of rows, priceIncreases the number of rows with
\* price_change > 0, priceDecreases the number with price_change < 0, a row
\* whose price_change is 0 or absent counts toward neither, and
\* priceIncreases + priceDecreases <= total.
C11_StatsFromRows ==
  /\ stats.total = Len(data)
  /\ stats.priceIncreases = Cardinality({i \in Rows : ChangeSign(data[i]) = 1})
  /\ stats.priceDecreases = Cardinality({i \in Rows : ChangeSign(data[i]) = -1})
  /\ stats.priceIncreases + stats.priceDecreases
       = stats.total - Cardinality({i \in Rows : ChangeSign(data[i]) = 0})
  /\ stats.priceIncreases + stats.priceDecreases <= stats.total

C11_Witness ==
  /\ AfterCalculate
  /\ Len(data) = 2
  /\ stats.priceDecreases = 1
  /\ stats.priceIncreases = 0
  /\ \E i \in Rows : Get(data[i], "price_change") = Num(0)

\* C12: Calculate changes only derived fields: the dataset after Calculate
\* has the same number of rows in the same order, and every row keeps its
\* sku, title, current_price, cost_price and every other field that is not
\* one of the fields Calculate writes.
C12_CalculateFrame ==
  [][last'.op = "calculate" =>
       /\ Len(data') = Len(data)
       /\ \A i \in Rows :
            /\ data'[i].sku = data[i].sku
            /\ data'[i].title = data[i].title
            /\ data'[i].current_price = data[i].current_price
            /\ data'[i].cost_price = data[i].cost_price
            /\ Base(data'[i]) = Base(data[i])]_vars

C12_Witness ==
  /\ AfterCalculate
  /\ Len(data) = 2
  /\ data[1].sku # data[2].sku
  /\ \E i \in Rows :
       /\ data[i].cost_price.num > 0
       /\ Has(data[i], "new_price_shopify")
       /\ Has(data[i], titleField)
  /\ \E i \in Rows : data[i].cost_price = Num(0)

\* C13: the two UI variants compute the same prices: for every row (rows
\* with cost_price = 0 included), every target and either method,
\* calculatePrices of src/page.tsx yields the new_price, margin_percent and
\* price_change that calculatePrices of src/app/page.tsx yields.
C13_VariantsAgree ==
  AfterCalculate =>
    \A i \in Rows :
      Derived(calculateRowSrcPage(Base(data[i]), last.target, last.method))
        = Derived(data[i])

\* C14: margin protection: after Calculate with the margin method and
\* 0 <= target < 100, or with the markup method and target >= 0, every row
\* with cost_price > 0, whatever the number of decimals of the cost, has
\* new_price >= cost_price and margin_percent >= 0.
C14_MarginProtection ==
  (/\ AfterCalculate
   /\ \/ last.method = "margin" /\ last.target.num >= 0 /\ last.target.num < Unit
      \/ last.method = "markup" /\ last.target.num >= 0)
  => \A i \in Rows :
       LET np == Get(data[i], "new_price")
           mp == Get(data[i], "margin_percent")
       IN  data[i].cost_price.num > 0 =>
             /\ IsNum(np) /\ np.num >= data[i].cost_price.num
             /\ IsNum(mp) /\ mp.num >= 0

\* C15: under any interleaving of file selections and parse completions,
\* whenever the dataset is non-empty the error message is empty, and when a
\* completion has just put a file's rows in the dataset the original-source
\* label is the name of that file (without its .csv).
C15_LabelOfLoadedFile ==
  Len(data) > 0 =>
    /\ error = ""
    /\ (last.op = "complete" /\ last.outcome = "ok") =>
         originalFileName = ReplaceFirst(last.name, CsvSuffix, <<>>)

\* Dataset, header set, source label and error are all empty.
Cleared ==
  data = <<>> /\ headers = <<>> /\ originalFileName = <<>> /\ error = ""

\* C16: after reset, the dataset, the header set, the source label and the
\* error stay empty until the user selects a new file: while no file has
\* been selected since the reset (the reset, then file dialogs closed
\* without a file), no step other than a selection changes them.
C16_ResetStaysEmpty ==
  [][(Cleared /\ last.op \in {"reset", "cancel"} /\ last'.op # "select") =>
       Cleared']_vars

\* C17: the statistics panel and the two export actions are available in
\* every state where the dataset is non-empty and Calculate has run (every
\* row has its derived fields), whatever the values in the rows, and
\* unavailable exactly when the dataset is Empty or Loaded.
C17_ResultsWhenCalculated ==
  resultsShown <=> DatasetState(data) = "Calculated"

====
